---- MODULE Spec2Model ----
(***************************************************************************)
(* certificate-parser.py: the scan of a versioned policy tree for          *)
(* certificates close to expiry, the report (output.txt), the ticket       *)
(* batches and the ledger of notified certificates (database_certs.json).  *)
(***************************************************************************)
EXTENDS Integers, Sequences, FiniteSets, TLC

\* the number of runs of the program over the same archive tree
MaxRuns == 2

(***************************************************************************)
(* Inputs: certificates, archives, the directory tree                      *)
(***************************************************************************)

\* a certificate as parse_cert returns it: serial, month and year of
\* not_after; within is the verdict of is_within_three_months on the run date
Cert(s, m, y, w) == [serial |-> s, month |-> m, year |-> y, within |-> w]

certNear == Cert("AB12", 11, 2026, TRUE)
certNext == Cert("7F", 12, 2026, TRUE)
certFar == Cert("CD34", 5, 2027, FALSE)

\* an environment file <Policy>_<Environment>.env on disk
NotZip == [kind |-> "notzip", certs |-> <<>>]
NoManifest == [kind |-> "nomanifest", certs |-> <<>>]
Zip(certs) == [kind |-> "zip", certs |-> certs]
NoFile == [kind |-> "nofile", certs |-> <<>>]

Manifests == {Zip(<<certFar>>), Zip(<<certNear, certFar>>), Zip(<<certNear, certNext>>)}

\* what the four environment files of the repository may be
SlotA == Manifests \cup {NoFile, NotZip, NoManifest, Zip(<<certNear, certNear>>)}
SlotB == Manifests \cup {NoFile}
SlotC == {NoFile, NotZip, NoManifest, Zip(<<certFar>>), Zip(<<certNear, certNext>>)}
SlotD == {NoFile, Zip(<<certFar>>), Zip(<<certNear, certNext>>)}

PolicyKeys == {"PAY", "OLD"}

File(p, e, a) == [pol |-> p, env |-> e, arch |-> a]

FileName(f) == f.pol \o "_" \o f.env \o ".env"

IsPresent(f) == f.arch.kind # "nofile"

SubPolicy(n, slots) == [name |-> n, files |-> SelectSeq(slots, IsPresent)]

PolicyDir(n, subs) == [name |-> n, subs |-> subs]

\* the version directories of the repository; a, b, c, d are the archives of
\* four environment files, dk the policy part of the fourth file's name. The
\* name of a version directory is a string of digits, written as the list
\* of its digits: <<1, 0>> is "10"
RepositoryNamed(a, b, c, d, dk, older, newer) ==
  [v \in {older, newer} |->
     IF v = newer
     THEN << PolicyDir("API-GW", << SubPolicy("gw", << File("API", "prod", Zip(<<certNear>>)) >>) >>),
             PolicyDir("PAY",
               << SubPolicy("s1", << File("PAY", "prod", a), File("PAY", "test", b) >>),
                  SubPolicy("s2", << File("PAY", "test", c) >>) >>) >>
     ELSE << PolicyDir("PAY", << SubPolicy("s1", << File("PAY", "prod", Zip(<<certNext>>)) >>) >>),
             PolicyDir("OLD", << SubPolicy("s1", << File(dk, "prod", d) >>) >>) >>]

\* versions "1" and "2"
Repository(a, b, c, d, dk) == RepositoryNamed(a, b, c, d, dk, <<1>>, <<2>>)

\* versions "9" and "10"
RepositoryNineTen(d) ==
  RepositoryNamed(Zip(<<certNear, certFar>>), NoFile, NoFile, d, "OLD", <<9>>, <<1, 0>>)

ApiPrefixed == {"API-GW"}

(***************************************************************************)
(* Helpers on dictionaries and lists                                       *)
(***************************************************************************)

EmptyDict == [k \in {} |-> k]

Get(f, k, default) == IF k \in DOMAIN f THEN f[k] ELSE default

Put(f, k, v) == [x \in (DOMAIN f) \cup {k} |-> IF x = k THEN v ELSE f[x]]

Range(s) == {s[i] : i \in 1..Len(s)}

Last(s) == s[Len(s)]

Front(s) == SubSeq(s, 1, Len(s) - 1)

\* environment_content is a dict in insertion order: a list of <<key, value>>
RECURSIVE DictSet(_, _, _)
DictSet(d, k, v) ==
  IF d = <<>> THEN << <<k, v>> >>
  ELSE IF Head(d)[1] = k THEN << <<k, v>> >> \o Tail(d)
  ELSE << Head(d) >> \o DictSet(Tail(d), k, v)

(***************************************************************************)
(* Pure functions of the program                                           *)
(***************************************************************************)

month_converter(month) ==
  CASE month = 1 -> "Januar"
    [] month = 2 -> "Februar"
    [] month = 3 -> "Maerz"        \* a-umlaut in the source
    [] month = 4 -> "April"
    [] month = 5 -> "Mai"
    [] month = 6 -> "Juni"
    [] month = 7 -> "Juli"
    [] month = 8 -> "August"
    [] month = 9 -> "September"
    [] month = 10 -> "Oktober"
    [] month = 11 -> "November"
    [] month = 12 -> "Dezember"
    [] OTHER -> "Invalid month"

\* f"{month}/{year}", the key of a month bucket of the ledger
DateKey(cert) == << month_converter(cert.month), cert.year >>

\* a <= b on Python strings: the first character that differs decides, and
\* a prefix comes before the longer string
RECURSIVE StrLessEq(_, _)
StrLessEq(a, b) ==
  IF a = <<>> THEN TRUE
  ELSE IF b = <<>> THEN FALSE
  ELSE IF Head(a) # Head(b) THEN Head(a) < Head(b)
  ELSE StrLessEq(Tail(a), Tail(b))

\* versions.sort(reverse=True) on the list of version strings
RECURSIVE SortDescending(_)
SortDescending(S) ==
  IF S = {} THEN <<>>
  ELSE LET m == CHOOSE x \in S : \A y \in S : StrLessEq(y, x)
       IN << m >> \o SortDescending(S \ {m})

find_versions(repo) == SortDescending(DOMAIN repo)

get_all_folder_paths(repo, version) ==
  IF version \in DOMAIN repo
  THEN SelectSeq(repo[version], LAMBDA p : p.name \notin ApiPrefixed)
  ELSE <<>>

\* tempy_folder: the manifest in it (kind, certs) and whether cert_file.pem
\* is in it; NoFolder is the directory that does not exist
NoFolder == [kind |-> "absent", certs |-> <<>>, pem |-> FALSE]

\* a delete_folder that leaves the directory as it is
delete_folder_keep(folder) == folder

\* shutil.rmtree(folder_path) when the path exists
delete_folder(folder) == NoFolder

\* extractall writes the members of a valid archive over what the directory
\* holds and leaves the other files; an invalid file extracts nothing
unzip(arch, folder) ==
  IF arch.kind = "zip"
  THEN [kind |-> "zip", certs |-> arch.certs, pem |-> folder.pem]
  ELSE IF arch.kind = "nomanifest"
  THEN IF folder.kind = "zip" THEN folder
       ELSE [kind |-> "nomanifest", certs |-> <<>>, pem |-> folder.pem]
  ELSE folder

\* cert_file.pem, written for each Certificate entity that is parsed
create_pem_file(folder) == [folder EXCEPT !.pem = (folder.pem \/ folder.certs # <<>>)]

\* TRUE when xml_path_for_Cert returns a path, FALSE when it returns None
xml_path_for_Cert(folder) == folder.kind = "zip"

parse_xml_for_certs(folder) == SelectSeq(folder.certs, LAMBDA c : c.within)

\* a lookup that finds the serial under any environment of the month bucket
IsLedgeredAnyEnv(data, policy, env, cert) ==
  /\ policy \in DOMAIN data
  /\ DateKey(cert) \in DOMAIN data[policy]
  /\ \E e \in DOMAIN data[policy][DateKey(cert)] :
       cert.serial \in Range(data[policy][DateKey(cert)][e])

\* the test of lines 462-467
IsLedgered(data, policy, env, cert) ==
  ~ (\/ policy \notin DOMAIN data
     \/ DateKey(cert) \notin DOMAIN data[policy]
     \/ env \notin DOMAIN data[policy][DateKey(cert)]
     \/ cert.serial \notin Range(data[policy][DateKey(cert)][env]))

BatchAdd(months_cert, env, cert) ==
  LET byEnv == Get(months_cert, cert.month, EmptyDict)
  IN Put(months_cert, cert.month, Put(byEnv, env, Append(Get(byEnv, env, <<>>), cert)))

RECURSIVE BatchCerts(_, _, _, _, _)
BatchCerts(months_cert, data, policy, env, certs) ==
  IF certs = <<>> THEN months_cert
  ELSE BatchCerts(
         IF IsLedgered(data, policy, env, Head(certs)) THEN months_cert
         ELSE BatchAdd(months_cert, env, Head(certs)),
         data, policy, env, Tail(certs))

RECURSIVE BatchEnvs(_, _, _, _)
BatchEnvs(months_cert, data, policy, content) ==
  IF content = <<>> THEN months_cert
  ELSE BatchEnvs(BatchCerts(months_cert, data, policy, Head(content)[1], Head(content)[2]),
                 data, policy, Tail(content))

\* months_cert of create_JIRA_tickets
create_JIRA_tickets(data, policy, content) == BatchEnvs(EmptyDict, data, policy, content)

\* a record under the month before the expiry month (a month counted from 0)
RecordCertOffByOne(data, env, cert) ==
  LET date == << month_converter(cert.month - 1), cert.year >>
      byEnv == Get(data, date, EmptyDict)
  IN Put(data, date, Put(byEnv, env, Append(Get(byEnv, env, <<>>), cert.serial)))

\* data.setdefault(date, {}).setdefault(env, []).append(serial_number)
RecordCert(data, env, cert) ==
  LET byEnv == Get(data, DateKey(cert), EmptyDict)
  IN Put(data, DateKey(cert), Put(byEnv, env, Append(Get(byEnv, env, <<>>), cert.serial)))

RECURSIVE RecordCerts(_, _, _)
RecordCerts(data, env, certs) ==
  IF certs = <<>> THEN data
  ELSE RecordCerts(RecordCert(data, env, Head(certs)), env, Tail(certs))

\* a merge that records the first environment of the unit alone
RecordEnvsFirstOnly(data, content) ==
  IF content = <<>> THEN data
  ELSE RecordCerts(data, Head(content)[1], Head(content)[2])

RECURSIVE RecordEnvs(_, _)
RecordEnvs(data, content) ==
  IF content = <<>> THEN data
  ELSE RecordEnvs(RecordCerts(data, Head(content)[1], Head(content)[2]), Tail(content))

\* a merge that starts from an empty policy entry instead of the stored one
database_updater_overwrite(all, policy, content) ==
  Put(all, policy, RecordEnvs(EmptyDict, content))

\* a merge that dumps the entry of its own policy alone
database_updater_alone(all, policy, content) ==
  Put(EmptyDict, policy, RecordEnvs(Get(all, policy, EmptyDict), content))

\* data_all of database_updater before it is dumped
database_updater(all, policy, content) ==
  Put(all, policy, RecordEnvs(Get(all, policy, EmptyDict), content))

\* lines of the report
Header(level, name) == [lvl |-> level, name |-> name]

CertLine(cert) == [lvl |-> 3, name |-> cert.serial]

RECURSIVE CertLines(_)
CertLines(container) ==
  IF container = <<>> THEN <<>>
  ELSE << CertLine(Head(container)) >> \o CertLines(Tail(container))

\* lines 578-582: what is written and what stays pending
FlushOrPop(pending, container) ==
  IF container # <<>>
  THEN [out |-> pending, holder |-> <<>>]
  ELSE [out |-> <<>>, holder |-> Front(pending)]

\* a pending header that is never popped
PopNever(pending, header) == pending

\* lines 596-599
PopIfLast(pending, header) ==
  IF pending # <<>> /\ Last(pending) = header THEN Front(pending) ELSE pending

\* a zones test that never skips
NeverHandled(entry, seen) == FALSE

\* line 562
AlreadyHandled(entry, seen) == entry \in seen

(***************************************************************************)
(* State                                                                   *)
(***************************************************************************)
VARIABLES
  repo,      \* the version directories on disk (not changed by the program)
  ledger,    \* database_certs.json on disk
  report,    \* the text written to output_folder/output.txt, in order
  temp,      \* tempy_folder on disk
  run,       \* the number of runs started
  pc,        \* the statement the run is at, "idle" between runs
  outcome,   \* how the last run ended, and why
  versions,  \* main: the versions still to scan
  zones,     \* main: the policy names handled in this run
  entries,   \* create_output_file: the policy tree of the pass
  pi,        \* index of the current entry
  si,        \* index of the current sub-policy
  ei,        \* index of the last environment file handled
  holder,    \* the pending headers
  Policy,    \* the local variable Policy, "unbound" before its assignment
  environment_content,
  data_all,  \* database_updater: the merged ledger to dump
  runStart,  \* length of the report when the run started
  calls,     \* the create_JIRA_tickets calls of this run, done once dumped
  prevDone,  \* the run before this one completed
  committed, \* the ledger as of the last completed dump
  upd,       \* the last two completed database_updater calls
  arg,       \* the arguments of a function called on its own
  res        \* and what it returned

vars ==
  << repo, ledger, report, temp, run, pc, outcome, versions, zones, entries,
     pi, si, ei, holder, Policy, environment_content, data_all, runStart,
     calls, prevDone, committed, upd, arg, res >>

\* a function called on its own, outside a run
probe == << arg, res >>

NoArg == [fn |-> "none"]
NoResult == [done |-> FALSE]

disk == << repo, ledger, report, temp >>

locals ==
  << versions, zones, entries, pi, si, ei, holder, Policy,
     environment_content, data_all >>

history == << runStart, calls, prevDone, committed, upd >>

Missing == [state |-> "missing", data |-> EmptyDict]
Truncated == [state |-> "truncated", data |-> EmptyDict]
Valid(d) == [state |-> "valid", data |-> d]

NoCall == [Policy |-> "none", content |-> <<>>, before |-> EmptyDict, after |-> EmptyDict]

Init ==
  /\ \/ \E a \in SlotA, b \in SlotB, c \in SlotC, d \in SlotD, dk \in PolicyKeys :
          repo = Repository(a, b, c, d, dk)
     \/ \E d \in SlotD : repo = RepositoryNineTen(d)
  /\ ledger \in {Missing, Valid(EmptyDict)}
  /\ report = <<>>
  /\ temp = NoFolder
  /\ run = 0
  /\ pc = "idle"
  /\ outcome = [end |-> "none", cause |-> "none"]
  /\ versions = <<>>
  /\ zones = {}
  /\ entries = <<>>
  /\ pi = 0
  /\ si = 0
  /\ ei = 0
  /\ holder = <<>>
  /\ Policy = "unbound"
  /\ environment_content = <<>>
  /\ data_all = EmptyDict
  /\ runStart = 0
  /\ calls = <<>>
  /\ prevDone = FALSE
  /\ committed = EmptyDict
  /\ upd = << NoCall, NoCall >>
  /\ arg = NoArg
  /\ res = NoResult

\* the locals of a run that has ended
ResetLocals ==
  /\ versions' = <<>>
  /\ zones' = {}
  /\ entries' = <<>>
  /\ pi' = 0
  /\ si' = 0
  /\ ei' = 0
  /\ holder' = <<>>
  /\ Policy' = "unbound"
  /\ environment_content' = <<>>
  /\ data_all' = EmptyDict

\* an uncaught exception, or the end of main
EndRun(end, cause) ==
  /\ pc' = "idle"
  /\ outcome' = [end |-> end, cause |-> cause]
  /\ ResetLocals

(***************************************************************************)
(* main                                                                    *)
(***************************************************************************)

\* main as written: delete_file_in_directory() at line 643 is called without
\* its two arguments and raises TypeError before the first pass
main ==
  /\ pc = "idle"
  /\ run < MaxRuns
  /\ run' = run + 1
  /\ EndRun("aborted", "main")
  /\ prevDone' = FALSE
  /\ runStart' = Len(report)
  /\ calls' = <<>>
  /\ UNCHANGED << disk, committed, upd >>
  /\ UNCHANGED probe

\* lines 640 and 645-651 entered: the versions in descending order and an
\* empty zones set
main_loop ==
  /\ pc = "idle"
  /\ run < MaxRuns
  /\ run' = run + 1
  /\ versions' = find_versions(repo)
  /\ zones' = {}
  /\ pc' = "versions"
  /\ prevDone' = (outcome.end = "done")
  /\ runStart' = Len(report)
  /\ calls' = <<>>
  /\ UNCHANGED << disk, outcome, entries, pi, si, ei, holder, Policy,
                  environment_content, data_all, committed, upd >>
  /\ UNCHANGED probe

\* line 649-651 and 554-560: the next pass starts, or the run is over
NextVersion ==
  /\ pc = "versions"
  /\ IF versions = <<>>
     THEN /\ EndRun("done", "none")
     ELSE /\ versions' = Tail(versions)
          /\ entries' = get_all_folder_paths(repo, Head(versions))
          /\ holder' = <<>>
          /\ Policy' = "unbound"
          /\ environment_content' = <<>>
          /\ pi' = 0
          /\ si' = 0
          /\ ei' = 0
          /\ pc' = "entry"
          /\ UNCHANGED << outcome, zones, data_all >>
  /\ UNCHANGED << disk, run, history >>
  /\ UNCHANGED probe

(***************************************************************************)
(* create_output_file                                                      *)
(***************************************************************************)

\* lines 561-565, and the end of the pass
NextEntry ==
  /\ pc = "entry"
  /\ IF pi = Len(entries)
     THEN /\ pc' = "versions"
          /\ UNCHANGED << pi, si, zones, holder >>
     ELSE LET entry == entries[pi + 1].name
          IN /\ pi' = pi + 1
             /\ IF AlreadyHandled(entry, zones)
                THEN /\ pc' = "entry"
                     /\ UNCHANGED << si, zones, holder >>
                ELSE /\ holder' = Append(holder, Header(0, entry))
                     /\ zones' = zones \cup {entry}
                     /\ si' = 0
                     /\ pc' = "ent"
  /\ UNCHANGED << disk, run, outcome, versions, entries, ei, Policy,
                  environment_content, data_all, history >>
  /\ UNCHANGED probe

\* lines 566-568, and lines 598-599 after the last sub-policy
NextSubPolicy ==
  /\ pc = "ent"
  /\ LET entry == entries[pi]
     IN IF si = Len(entry.subs)
        THEN /\ holder' = PopIfLast(holder, Header(0, entry.name))
             /\ pc' = "entry"
             /\ UNCHANGED << si, ei, environment_content >>
        ELSE /\ holder' = Append(holder, Header(1, entry.subs[si + 1].name))
             /\ environment_content' = <<>>
             /\ si' = si + 1
             /\ ei' = 0
             /\ pc' = "e"
  /\ UNCHANGED << disk, run, outcome, versions, zones, entries, pi, Policy,
                  data_all, history >>
  /\ UNCHANGED probe

\* lines 569-593 for one environment file, or the end of the list
NextEnvironment ==
  /\ pc = "e"
  /\ LET files == entries[pi].subs[si].files
     IN IF ei = Len(files)
        THEN /\ pc' = "tickets"
             /\ UNCHANGED << report, temp, outcome, versions, zones, entries,
                             pi, si, ei, holder, Policy, environment_content,
                             data_all >>
        ELSE LET e == files[ei + 1]
                 pending == Append(holder, Header(2, FileName(e)))
                 folder == unzip(e.arch, delete_folder(temp))
                 container == parse_xml_for_certs(folder)
                 w == FlushOrPop(pending, container)
             IN /\ IF ~ xml_path_for_Cert(folder)
                   THEN \* os.path.isfile(None) raises TypeError
                        /\ EndRun("aborted",
                                  IF e.arch.kind = "notzip" THEN "archive" ELSE "manifest")
                        /\ temp' = folder
                        /\ UNCHANGED report
                   ELSE /\ temp' = create_pem_file(folder)
                        /\ Policy' = e.pol
                        /\ environment_content' = DictSet(environment_content, e.env, container)
                        /\ report' = report \o w.out \o CertLines(container)
                        /\ holder' = w.holder
                        /\ ei' = ei + 1
                        /\ pc' = "e"
                        /\ UNCHANGED << outcome, versions, zones, entries, pi,
                                        si, data_all >>
  /\ UNCHANGED << repo, ledger, run, history >>
  /\ UNCHANGED probe

\* line 594: create_JIRA_tickets(Policy, environment_content)
Tickets ==
  /\ pc = "tickets"
  /\ IF Policy = "unbound"
     THEN /\ EndRun("aborted", "policy")
          /\ UNCHANGED calls
     ELSE IF ledger.state # "valid"
     THEN \* open(database, "r") or json.load raises
          /\ EndRun("aborted", "ledger")
          /\ UNCHANGED calls
     ELSE /\ calls' = Append(calls,
                        [entry |-> entries[pi].name,
                         Policy |-> Policy,
                         content |-> environment_content,
                         data |-> ledger.data,
                         done |-> FALSE,
                         months_cert |-> create_JIRA_tickets(ledger.data, Policy,
                                                            environment_content)])
          /\ pc' = "update"
          /\ UNCHANGED << outcome, locals >>
  /\ UNCHANGED << disk, run, runStart, prevDone, committed, upd >>
  /\ UNCHANGED probe

\* line 595, lines 412-428: the ledger is read and merged, and the file is
\* opened for writing, which empties it
Update ==
  /\ pc = "update"
  /\ IF ledger.state = "truncated"
     THEN /\ EndRun("aborted", "ledger")
          /\ UNCHANGED ledger
     ELSE /\ data_all' = database_updater(ledger.data, Policy, environment_content)
          /\ ledger' = Truncated
          /\ pc' = "dump"
          /\ UNCHANGED << outcome, versions, zones, entries, pi, si, ei,
                          holder, Policy, environment_content >>
  /\ UNCHANGED << repo, report, temp, run, history >>
  /\ UNCHANGED probe

\* line 429, then lines 596-597
Dump ==
  /\ pc = "dump"
  /\ ledger' = Valid(data_all)
  /\ committed' = data_all
  /\ upd' = << upd[2],
               [Policy |-> Policy, content |-> environment_content,
                before |-> committed, after |-> data_all] >>
  /\ calls' = [calls EXCEPT ![Len(calls)].done = TRUE]
  /\ holder' = PopIfLast(holder, Header(1, entries[pi].subs[si].name))
  /\ pc' = "ent"
  /\ UNCHANGED << repo, report, temp, run, outcome, versions, zones, entries,
                  pi, si, ei, Policy, environment_content, data_all,
                  runStart, prevDone >>
  /\ UNCHANGED probe

\* the process is killed
Crash ==
  /\ pc # "idle"
  /\ EndRun("aborted", "killed")
  /\ UNCHANGED << disk, run, history >>
  /\ UNCHANGED probe

Next ==
  \/ main
  \/ main_loop
  \/ NextVersion
  \/ NextEntry
  \/ NextSubPolicy
  \/ NextEnvironment
  \/ Tickets
  \/ Update
  \/ Dump
  \/ Crash

Spec == Init /\ [][Next]_vars

(***************************************************************************)
(* is_within_three_months                                                  *)
(***************************************************************************)

Date(y, m, d) == [y |-> y, m |-> m, d |-> d]

IsLeap(y) == (y % 4 = 0 /\ y % 100 # 0) \/ y % 400 = 0

\* calendar.monthrange(year, month)[1]
DaysInMonth(y, m) ==
  IF m = 2 THEN (IF IsLeap(y) THEN 29 ELSE 28)
  ELSE IF m \in {4, 6, 9, 11} THEN 30 ELSE 31

RECURSIVE DaysBeforeMonth(_, _)
DaysBeforeMonth(y, m) ==
  IF m = 1 THEN 0 ELSE DaysBeforeMonth(y, m - 1) + DaysInMonth(y, m - 1)

\* date.toordinal(): the order of dates, and their difference in days
Ordinal(dt) ==
  LET p == dt.y - 1
  IN 365 * p + (p \div 4) - (p \div 100) + (p \div 400) + DaysBeforeMonth(dt.y, dt.m) + dt.d

Abs(n) == IF n < 0 THEN 0 - n ELSE n

Sign(n) == IF n < 0 THEN 0 - 1 ELSE 1

Min(a, b) == IF a < b THEN a ELSE b

\* relativedelta._set_months: whole years are split off, the sign is kept
set_months(months) ==
  IF Abs(months) > 11
  THEN LET s == Sign(months)
       IN [years |-> ((months * s) \div 12) * s, months |-> ((months * s) % 12) * s]
  ELSE [years |-> 0, months |-> months]

\* dt + relativedelta(years, months): the day is cut to the length of the month
radd(dt, rd) ==
  LET y0 == dt.y + rd.years
      m0 == dt.m + rd.months
      year == IF m0 > 12 THEN y0 + 1 ELSE IF m0 < 1 THEN y0 - 1 ELSE y0
      month == IF m0 > 12 THEN m0 - 12 ELSE IF m0 < 1 THEN m0 + 12 ELSE m0
  IN Date(year, month, Min(DaysInMonth(year, month), dt.d))

\* the loop of relativedelta(dt1, dt2): the months are moved towards zero
\* until dt2 + months does not pass dt1
RECURSIVE AdjustMonths(_, _, _)
AdjustMonths(dt1, dt2, months) ==
  LET dtm == radd(dt2, set_months(months))
  IN IF Ordinal(dt1) < Ordinal(dt2)
     THEN IF Ordinal(dt1) > Ordinal(dtm) THEN AdjustMonths(dt1, dt2, months + 1) ELSE months
     ELSE IF Ordinal(dt1) < Ordinal(dtm) THEN AdjustMonths(dt1, dt2, months - 1) ELSE months

\* relativedelta.relativedelta(dt1, dt2) of two dates
relativedelta(dt1, dt2) ==
  LET months == AdjustMonths(dt1, dt2, (dt1.y - dt2.y) * 12 + (dt1.m - dt2.m))
      rd == set_months(months)
  IN [years |-> rd.years, months |-> rd.months,
      days |-> Ordinal(dt1) - Ordinal(radd(dt2, rd))]

\* a test that lets a third whole month pass
DeltaWithinFourMonths(delta) == delta.years = 0 /\ delta.months <= 3 /\ delta.days >= 0

\* line 311
DeltaWithin(delta) == delta.years = 0 /\ delta.months <= 2 /\ delta.days >= 0

is_within_three_months(today, end_date) == DeltaWithin(relativedelta(end_date, today))

\* the run dates and the not_after dates the function is called with
Todays ==
  {Date(2026, 11, 1), Date(2026, 11, 30), Date(2027, 1, 31), Date(2027, 12, 31),
   Date(2028, 2, 29), Date(2026, 3, 15)}

EndYears == 2025 .. 2029

EndDates ==
  {dt \in [y : EndYears, m : 1 .. 12, d : 1 .. 31] : dt.d <= DaysInMonth(dt.y, dt.m)}

ExpiryArgs == [fn : {"is_within_three_months"}, today : Todays, end_date : EndDates]

(***************************************************************************)
(* xml_path_for_Cert on a directory listing                                *)
(***************************************************************************)

\* a file name is a list of its parts: <<"Cert", "Store", ".xml">>
startswith(x, prefix) == x # <<>> /\ Head(x) = prefix

endswith(x, suffix) == x # <<>> /\ Last(x) = suffix

\* the entries of tempy_folder, in the order os.listdir returns them
Dir(name, files) == [name |-> name, isdir |-> TRUE, files |-> files]

PlainFile(name) == [name |-> name, isdir |-> FALSE, files |-> <<>>]

NoPath == [kind |-> "none", sub |-> <<>>, file |-> <<>>]

PathRaised == [kind |-> "raised", sub |-> <<>>, file |-> <<>>]

\* lines 284-294: the first entry that is not META*, the first Cert*.xml in it
xml_path_for_Cert_in(d) ==
  IF ~ d.exists THEN NoPath                  \* FileNotFoundError, caught
  ELSE LET subs == SelectSeq(d.entries, LAMBDA x : ~ startswith(x.name, "META"))
       IN IF subs = <<>> THEN NoPath         \* IndexError, caught
          ELSE IF ~ subs[1].isdir THEN PathRaised   \* NotADirectoryError, not caught
          ELSE LET cert_file == SelectSeq(subs[1].files,
                                  LAMBDA x : startswith(x, "Cert") /\ endswith(x, ".xml"))
               IN IF cert_file = <<>> THEN NoPath   \* IndexError, caught
                  ELSE [kind |-> "path", sub |-> subs[1].name, file |-> cert_file[1]]

SeqsUpTo(S, n) == UNION {[1 .. k -> S] : k \in 0 .. n}

\* a directory holds no two entries of the same name
DistinctNames(names) == \A i, j \in 1 .. Len(names) : i # j => names[i] # names[j]

NamesOf(l) == [i \in 1 .. Len(l) |-> l[i].name]

FileNames ==
  {<<"Cert", "Store", ".xml">>, <<"Cert", "Old", ".xml">>, <<"Store", ".xml">>,
   <<"Cert", "Store", ".bak">>}

SubFiles == {l \in SeqsUpTo(FileNames, 2) : DistinctNames(l)}

TopEntries ==
  {Dir(<<"META", "-INF">>, <<>>), PlainFile(<<"readme", ".txt">>)}
    \cup {Dir(<<"policies">>, f) : f \in SubFiles}
    \cup {Dir(<<"backup">>, f) : f \in {<<>>, << <<"Cert", "Old", ".xml">> >>}}

Listings == {l \in SeqsUpTo(TopEntries, 3) : DistinctNames(NamesOf(l))}

LocateArgs ==
  [fn : {"xml_path_for_Cert"},
   dir : {[exists |-> FALSE, entries |-> <<>>]}
           \cup {[exists |-> TRUE, entries |-> l] : l \in Listings}]

(***************************************************************************)
(* parse_xml_for_certs on the entities of a manifest                       *)
(***************************************************************************)

\* a child node of an entity: an element with a name attribute, or a text
\* node ("text"); the payload of a content child is a certificate, empty,
\* or text that is no certificate
Child(name, kind, cert) == [name |-> name, payload |-> [kind |-> kind, cert |-> cert]]

Entity(type, children) == [type |-> type, children |-> children]

\* lines 334-349 for one entity: the first content child that parses ends
\* the loop; an exception goes on with the next child
RECURSIVE ParseChildren(_, _)
ParseChildren(children, container) ==
  IF children = <<>> THEN container
  ELSE LET c == Head(children)
       IN IF c.name = "text" THEN ParseChildren(Tail(children), container)
          ELSE IF c.name # "content" THEN ParseChildren(Tail(children), container)
          ELSE IF c.payload.kind # "cert" THEN ParseChildren(Tail(children), container)
          ELSE IF c.payload.cert.within THEN Append(container, c.payload.cert)
          ELSE container

\* lines 332-333: m.attributes["type"] is outside the try, so an entity with
\* no type attribute raises KeyError out of the function
RECURSIVE ParseEntities(_, _)
ParseEntities(models, container) ==
  IF models = <<>> THEN [raised |-> FALSE, container |-> container]
  ELSE IF Head(models).type = "none" THEN [raised |-> TRUE, container |-> <<>>]
  ELSE IF Head(models).type = "Certificate"
  THEN ParseEntities(Tail(models), ParseChildren(Head(models).children, container))
  ELSE ParseEntities(Tail(models), container)

parse_xml_entities(models) == ParseEntities(models, <<>>)

Whitespace == Child("text", "empty", certFar)

Entities ==
  {Entity("Certificate", << Whitespace, Child("content", "cert", certNear) >>),
   Entity("Certificate", << Child("alias", "empty", certFar), Child("content", "cert", certNext) >>),
   Entity("Certificate", << Child("content", "cert", certFar) >>),
   Entity("Certificate", << Whitespace, Child("alias", "empty", certFar) >>),
   Entity("Certificate", << Child("content", "empty", certFar) >>),
   Entity("Certificate", << Child("content", "garbage", certFar) >>),
   Entity("Policy", << Child("content", "cert", certNear) >>),
   Entity("none", << Child("content", "cert", certNear) >>)}

ParseArgs == [fn : {"parse_xml_for_certs"}, models : SeqsUpTo(Entities, 3)]

(***************************************************************************)
(* Functions called on their own                                           *)
(***************************************************************************)

\* the variables of a run, which a call of a function on its own leaves alone
runvars ==
  << repo, ledger, report, temp, run, pc, outcome, versions, zones, entries,
     pi, si, ei, holder, Policy, environment_content, data_all, runStart,
     calls, prevDone, committed, upd >>

InitCall ==
  /\ repo = Repository(NoFile, NoFile, NoFile, NoFile, "OLD")
  /\ ledger = Missing
  /\ report = <<>>
  /\ temp = NoFolder
  /\ run = 0
  /\ pc = "idle"
  /\ outcome = [end |-> "none", cause |-> "none"]
  /\ versions = <<>>
  /\ zones = {}
  /\ entries = <<>>
  /\ pi = 0
  /\ si = 0
  /\ ei = 0
  /\ holder = <<>>
  /\ Policy = "unbound"
  /\ environment_content = <<>>
  /\ data_all = EmptyDict
  /\ runStart = 0
  /\ calls = <<>>
  /\ prevDone = FALSE
  /\ committed = EmptyDict
  /\ upd = << NoCall, NoCall >>
  /\ arg \in ExpiryArgs \cup LocateArgs \cup ParseArgs
  /\ res = NoResult

\* is_within_three_months(end_date) on the day today
CallExpiry ==
  /\ arg.fn = "is_within_three_months"
  /\ ~ res.done
  /\ res' = [done |-> TRUE, value |-> is_within_three_months(arg.today, arg.end_date)]
  /\ UNCHANGED << arg, runvars >>

\* xml_path_for_Cert(temp_folder) on a directory as listed
CallLocate ==
  /\ arg.fn = "xml_path_for_Cert"
  /\ ~ res.done
  /\ res' = [done |-> TRUE, value |-> xml_path_for_Cert_in(arg.dir)]
  /\ UNCHANGED << arg, runvars >>

\* parse_xml_for_certs on a manifest with the entities arg.models
CallParse ==
  /\ arg.fn = "parse_xml_for_certs"
  /\ ~ res.done
  /\ res' = [done |-> TRUE, value |-> parse_xml_entities(arg.models)]
  /\ UNCHANGED << arg, runvars >>

NextCall ==
  \/ CallExpiry
  \/ CallLocate
  \/ CallParse

SpecCall == InitCall /\ [][NextCall]_vars

(***************************************************************************)
(* Properties                                                              *)
(***************************************************************************)

NoDuplicates(list) ==
  \A i, j \in 1..Len(list) : i # j => list[i] # list[j]

\* (policy, "monthName/year", environment, serial) is recorded in data
Recorded(data, policy, date, env, serial) ==
  /\ policy \in DOMAIN data
  /\ date \in DOMAIN data[policy]
  /\ env \in DOMAIN data[policy][date]
  /\ \E i \in 1..Len(data[policy][date][env]) : data[policy][date][env][i] = serial

\* the tuples recorded in data
RecordedTuples(data) ==
  UNION { UNION { UNION { { << p, d, e, data[p][d][e][i] >> : i \in 1..Len(data[p][d][e]) }
                          : e \in DOMAIN data[p][d] }
                  : d \in DOMAIN data[p] }
          : p \in DOMAIN data }

\* the certificates of a batch set, as (environment, certificate) pairs
Batched(months_cert) ==
  UNION { UNION { { << e, months_cert[m][e][i] >> : i \in 1..Len(months_cert[m][e]) }
                  : e \in DOMAIN months_cert[m] }
          : m \in DOMAIN months_cert }

\* the tuples a create_JIRA_tickets call put into its batches
TicketedTuples(call) ==
  { << call.Policy, DateKey(x[2]), x[1], x[2].serial >> : x \in Batched(call.months_cert) }

\* the (environment, certificate) pairs of an environment_content
Offered(content) ==
  UNION { { << content[k][1], content[k][2][i] >> : i \in 1..Len(content[k][2]) }
          : k \in 1..Len(content) }

\* C1: in every ledger state the serial list under a policy, month/year and
\* environment holds each serial number at most once
C1_SerialsUnique ==
  ledger.state = "valid" =>
    \A p \in DOMAIN ledger.data :
      \A d \in DOMAIN ledger.data[p] :
        \A e \in DOMAIN ledger.data[p][d] : NoDuplicates(ledger.data[p][d][e])

\* C2: database_updater called twice in a row with the same policy and
\* environment_content leaves the ledger as the first call left it
C2_RecordIdempotent ==
  ( /\ upd[1].Policy # "none"
    /\ upd[2].Policy = upd[1].Policy
    /\ upd[2].content = upd[1].content
    /\ upd[2].before = upd[1].after )
  => upd[2].after = upd[1].after

\* C3: in a run that follows a completed run over the same archives, no
\* create_JIRA_tickets call puts a certificate into months_cert
C3_SecondRunNoBatches ==
  prevDone => \A i \in 1..Len(calls) : calls[i].months_cert = EmptyDict

C3_Witness ==
  /\ prevDone
  /\ pc = "idle"
  /\ outcome.end = "done"
  /\ \E i \in 1..Len(calls) : Offered(calls[i].content) # {}

\* C4: a certificate of environment_content is in a batch of the call if and
\* only if its tuple is not recorded in the ledger the call read, and every
\* batched certificate is one of environment_content
C4_BatchesExactlyUnledgered ==
  \A i \in 1..Len(calls) :
    LET call == calls[i]
    IN /\ \A x \in Offered(call.content) :
            (x \in Batched(call.months_cert))
              <=> ~ Recorded(call.data, call.Policy, DateKey(x[2]), x[1], x[2].serial)
       /\ Batched(call.months_cert) \subseteq Offered(call.content)

C4_Witness ==
  \E i \in 1..Len(calls) :
    /\ Batched(calls[i].months_cert) # {}
    /\ Offered(calls[i].content) \ Batched(calls[i].months_cert) # {}

\* C5: within one run no (policy, month/year, environment, serial) tuple is
\* put into the batches of two create_JIRA_tickets calls
C5_TicketedAtMostOnce ==
  \A i, j \in 1..Len(calls) :
    i < j => TicketedTuples(calls[i]) \cap TicketedTuples(calls[j]) = {}

C5_Witness ==
  \E i, j \in 1..Len(calls) :
    /\ i < j
    /\ \E x \in Offered(calls[j].content) :
         << calls[j].Policy, DateKey(x[2]), x[1], x[2].serial >> \in TicketedTuples(calls[i])

\* C6: while one policy is processed, every expiry month of an un-ledgered
\* certificate gets a batch, and a (policy, expiry month) pair gets one batch
\* only, whatever the number of its sub-policies
C6_OneBatchPerPolicyMonth ==
  /\ \A i \in 1..Len(calls) :
       \A x \in Offered(calls[i].content) :
         ~ Recorded(calls[i].data, calls[i].Policy, DateKey(x[2]), x[1], x[2].serial)
           => x[2].month \in DOMAIN calls[i].months_cert
  /\ \A i, j \in 1..Len(calls) :
       (i < j /\ calls[i].entry = calls[j].entry /\ calls[i].Policy = calls[j].Policy)
         => (DOMAIN calls[i].months_cert) \cap (DOMAIN calls[j].months_cert) = {}

\* line i of the report is followed by a certificate line before the next
\* header of its level or above
HasCertificateBelow(text, i) ==
  \E j \in (i + 1)..Len(text) :
    /\ text[j].lvl = 3
    /\ \A k \in (i + 1)..(j - 1) : text[k].lvl > text[i].lvl

\* C7: no policy, sub-policy or environment header of the report has zero
\* certificate lines beneath it
C7_NoEmptyHeaders ==
  \A i \in 1..Len(report) : report[i].lvl < 3 => HasCertificateBelow(report, i)

C7_Witness ==
  /\ outcome.end = "done"
  /\ <<2>> \in DOMAIN repo
  /\ Len(repo[<<2>>][2].subs[1].files) > 0
  /\ \E i \in 1..Len(report) : report[i] = Header(1, "s2")
  /\ \A i \in 1..Len(report) : report[i] # Header(1, "s1")

\* C8: at every point the ledger on disk holds every serial that a completed
\* database_updater call has persisted
C8_CommittedSurvives ==
  \A t \in RecordedTuples(committed) :
    ledger.state = "valid" /\ Recorded(ledger.data, t[1], t[2], t[3], t[4])

\* C9: an archive, manifest or ledger error of one unit does not end the run
C9_UnitErrorsSkipped ==
  outcome.cause \notin {"archive", "manifest", "ledger"}

\* C10: in the text one run writes, a policy header occurs at most once
C10_PolicyWrittenOnce ==
  \A i, j \in (runStart + 1)..Len(report) :
    (i < j /\ report[i].lvl = 0 /\ report[j].lvl = 0) => report[i].name # report[j].name

C10_Witness ==
  /\ pc = "entry"
  /\ versions = <<>>
  /\ pi >= 1
  /\ entries[pi].name \in zones
  /\ \E i \in (runStart + 1)..Len(report) : report[i] = Header(0, entries[pi].name)

\* C11: every run removes the report once, before its first pass, and then
\* goes through its passes: the text of the run starts from an empty report
C11_TruncatedOnceAtStart ==
  run > 0 => (runStart = 0 /\ outcome.cause # "main")

\* a call of is_within_three_months has returned
ExpiryDone == arg.fn = "is_within_three_months" /\ res.done

\* dt plus n calendar months
PlusMonths(dt, n) == radd(dt, set_months(n))

\* C12: is_within_three_months returns false for every not_after before today
C12_PastDatesRejected ==
  (ExpiryDone /\ Ordinal(arg.end_date) < Ordinal(arg.today)) => ~ res.value

\* C13: is_within_three_months returns true exactly for the dates from today
\* up to, and not including, today plus three calendar months
C13_CalendarWindow ==
  ExpiryDone =>
    (res.value <=> /\ Ordinal(arg.today) <= Ordinal(arg.end_date)
                   /\ Ordinal(arg.end_date) < Ordinal(PlusMonths(arg.today, 3)))

\* C14 as stated: is_within_three_months returns false for every not_after
\* more than two calendar months and one day after today
C14_FalseBeyondTwoMonthsOneDay ==
  (ExpiryDone /\ Ordinal(arg.end_date) > Ordinal(PlusMonths(arg.today, 2)) + 1) => ~ res.value

\* C14: is_within_three_months returns false for every not_after three
\* calendar months or more after today
C14_FalseFromThreeMonths ==
  (ExpiryDone /\ Ordinal(arg.end_date) >= Ordinal(PlusMonths(arg.today, 3))) => ~ res.value

\* the last day of February, three months after the last day of November
C14_Witness ==
  /\ ExpiryDone
  /\ arg.today = Date(2026, 11, 30)
  /\ arg.end_date = PlusMonths(arg.today, 3)
  /\ arg.end_date = Date(2027, 2, 28)
  /\ ~ res.value

\* a call of xml_path_for_Cert has returned or raised
LocateDone == arg.fn = "xml_path_for_Cert" /\ res.done

NonMetaDirs(d) ==
  {i \in 1 .. Len(d.entries) : d.entries[i].isdir /\ ~ startswith(d.entries[i].name, "META")}

CertFiles(e) ==
  {i \in 1 .. Len(e.files) : startswith(e.files[i], "Cert") /\ endswith(e.files[i], ".xml")}

\* C15: xml_path_for_Cert returns a path only when the directory holds
\* exactly one top-level subdirectory that is not META* and that subdirectory
\* holds exactly one Cert*.xml file
C15_AmbiguityReported ==
  (LocateDone /\ res.value.kind = "path") =>
    /\ Cardinality(NonMetaDirs(arg.dir)) = 1
    /\ \A i \in NonMetaDirs(arg.dir) : Cardinality(CertFiles(arg.dir.entries[i])) = 1

\* a call of parse_xml_for_certs has returned or raised
ParseDone == arg.fn = "parse_xml_for_certs" /\ res.done

\* the certificate of a well-formed Certificate entity, if it qualifies
RECURSIVE QualifyingCerts(_)
QualifyingCerts(models) ==
  IF models = <<>> THEN <<>>
  ELSE LET m == Head(models)
           ok == {i \in 1 .. Len(m.children) :
                    m.children[i].name = "content" /\ m.children[i].payload.kind = "cert"}
       IN (IF m.type = "Certificate" /\ ok # {}
              /\ m.children[CHOOSE i \in ok : TRUE].payload.cert.within
           THEN << m.children[CHOOSE i \in ok : TRUE].payload.cert >>
           ELSE <<>>) \o QualifyingCerts(Tail(models))

\* C16: parse_xml_for_certs does not raise on a malformed entity, and returns
\* every well-formed qualifying Certificate entity in manifest order
C16_MalformedEntitySkipped ==
  ParseDone =>
    (~ res.value.raised /\ res.value.container = QualifyingCerts(arg.models))

\* C17: the scratch directory an environment's manifest is located and
\* parsed in holds what that environment's archive extracts to and nothing
\* else: the certificates stored for the environment are those of its own
\* archive, and after an archive that extracts nothing or holds no manifest
\* the directory shows no manifest and no PEM file of an earlier archive
C17_ScratchHoldsOwnArchiveOnly ==
  /\ (pc = "e" /\ ei >= 1) =>
       LET e == entries[pi].subs[si].files[ei]
       IN /\ temp = create_pem_file(unzip(e.arch, NoFolder))
          /\ \E k \in 1..Len(environment_content) :
               environment_content[k] = << e.env, SelectSeq(e.arch.certs, LAMBDA c : c.within) >>
  /\ (pc = "idle" /\ outcome.cause \in {"archive", "manifest"}) =>
       (temp.kind # "zip" /\ temp.certs = <<>> /\ ~ temp.pem)

\* a file that is no archive follows units whose archives held certificates
C17_Witness ==
  /\ pc = "idle"
  /\ outcome.cause = "archive"
  /\ calls # <<>>
  /\ Offered(Last(calls).content) # {}
  /\ temp = NoFolder

\* C18: while no ledger file is on disk, no unit of a run ends in a ledger
\* error: the batching lookup reads the missing file as an empty ledger
C18_MissingLedgerReadAsEmpty ==
  ledger.state = "missing" => outcome.cause # "ledger"

IsPrefix(a, b) == Len(a) <= Len(b) /\ SubSeq(b, 1, Len(a)) = a

\* C19: a completed database_updater call for policy P leaves the entry of
\* every other policy as it was, adds no policy but P, and keeps every
\* month/year bucket, environment and serial already recorded under P (each
\* stored serial list is a prefix of the list after the call)
C19_UpdaterOnlyGrows ==
  LET u == upd[2]
  IN u.Policy # "none" =>
       /\ DOMAIN u.after = DOMAIN u.before \cup {u.Policy}
       /\ \A p \in DOMAIN u.before : p # u.Policy => u.after[p] = u.before[p]
       /\ u.Policy \in DOMAIN u.before =>
            \A d \in DOMAIN u.before[u.Policy] :
              /\ d \in DOMAIN u.after[u.Policy]
              /\ \A e \in DOMAIN u.before[u.Policy][d] :
                   /\ e \in DOMAIN u.after[u.Policy][d]
                   /\ IsPrefix(u.before[u.Policy][d][e], u.after[u.Policy][d][e])

\* a call that grows policy P while another policy is in the ledger
C19_Witness ==
  LET u == upd[2]
  IN /\ u.Policy \in DOMAIN u.before
     /\ u.before[u.Policy] # EmptyDict
     /\ \E p \in DOMAIN u.before : p # u.Policy /\ u.before[p] # EmptyDict
     /\ u.after # u.before

\* C20: right after a unit (create_JIRA_tickets, then database_updater) the
\* ledger on disk is readable, and the lookup of lines 462-467 finds in it
\* every certificate batched for a unit of the run that was completed; so
\* does the ledger every later lookup of the run has read
C20_BatchedAreRecorded ==
  /\ (pc = "ent" /\ si >= 1) =>
       (calls # <<>> /\ Last(calls).done /\ ledger.state = "valid")
  /\ \A i \in 1..Len(calls) :
       calls[i].done =>
         \A x \in Batched(calls[i].months_cert) :
           /\ ledger.state = "valid" => IsLedgered(ledger.data, calls[i].Policy, x[1], x[2])
           /\ \A j \in (i + 1)..Len(calls) :
                IsLedgered(calls[j].data, calls[i].Policy, x[1], x[2])

\* two units in a row were completed and the first one batched certificates
\* of two environments
C20_Witness ==
  /\ pc = "ent"
  /\ Len(calls) >= 2
  /\ Last(calls).done
  /\ \E x, y \in Batched(calls[1].months_cert) : x[1] # y[1]

\* C21: the policy key create_JIRA_tickets and database_updater are called
\* with is the policy part of the name of an environment file of the
\* sub-policy they are called for, and no run ends because a sub-policy has
\* no environment file
C21_PolicyKeyFromOwnSubPolicy ==
  /\ pc \in {"update", "dump"} =>
       \E k \in 1..Len(entries[pi].subs[si].files) :
         entries[pi].subs[si].files[k].pol = Policy
  /\ outcome.cause # "policy"

\* the number a version string of digits stands for
RECURSIVE VersionNumber(_)
VersionNumber(v) ==
  IF v = <<>> THEN 0 ELSE VersionNumber(Front(v)) * 10 + Last(v)

\* the policy directories of a version, as listed
PolicyNames(version) == {repo[version][k].name : k \in 1..Len(repo[version])}

\* C22: the passes of a run go through the versions from the highest to the
\* lowest, and a policy is processed (report lines, ticket batches, ledger
\* updates) only in the first pass whose version contains its name
C22_DescendingFirstPassWins ==
  pc # "idle" =>
    LET passes == find_versions(repo)
        cur == Len(passes) - Len(versions)
    IN /\ \A i \in 1..cur : \A k \in 1..Len(versions) :
            VersionNumber(passes[i]) > VersionNumber(versions[k])
       /\ \A i, k \in 1..Len(versions) :
            i < k => VersionNumber(versions[i]) > VersionNumber(versions[k])
       /\ pc \in {"ent", "e", "tickets", "update", "dump"} =>
            \A i \in 1..(cur - 1) : entries[pi].name \notin PolicyNames(passes[i])

====
